---- MODULE Spec2Model ----
(***************************************************************************)
(* A model of routeros/mikrotik_client.go: the construction of a RouterOS  *)
(* client (NewClient), the version probe (GetRouterOSVersion), and the     *)
(* helpers URL.GetRestURL and EscapeChars.                                 *)
(*                                                                         *)
(* Go strings are modelled as sequences of lexemes: every lexeme stands    *)
(* for the characters it spells, and a string is the concatenation of its  *)
(* lexemes.  No lexeme of the alphabets below is the concatenation of      *)
(* others, so two strings are equal exactly when their sequences are.      *)
(* Byte slices (EscapeChars) are sequences of integers 0..255.             *)
(***************************************************************************)
EXTENDS Integers, Sequences, FiniteSets, TLC

VARIABLES
    RouterOSVersion, \* the package-level RouterOS version string
    pc,              \* position of the (single) NewClient call in its body
    d,               \* the schema.ResourceData of the call in progress
    fs,              \* what the file system holds at the CA path
    tlsConf,         \* tls.Config built by the call
    routerUrl,       \* *url.URL of the call
    useTLS,          \* local useTLS
    transport,       \* local transport
    session,         \* api.Client: the routeros session, once dialed
    client,          \* first return value of the last call (NoClient: nil)
    diags,           \* second return value of the last call (<<>>: nil)
    log,             \* I/O the call has performed, in order
    verAtCall,       \* RouterOSVersion when the call in progress started
    ret,             \* source line of the return statement taken (0: none yet)
    probeRes,        \* what the bootstrap read of this call returned
    data,            \* EscapeChars: the argument
    escOut,          \* EscapeChars: the value returned
    u,               \* URL receiver of GetRestURL
    uIn,             \* the URL value before the method call
    restOut,         \* value returned by GetRestURL
    vRes,            \* GetRouterOSVersion: what ReadItems returns
    vOut,            \* GetRouterOSVersion: the value returned
    vSeen            \* failure kinds and diagnostics seen so far

clientVars == <<RouterOSVersion, pc, d, fs, tlsConf, routerUrl, useTLS,
                transport, session, client, diags, log, verAtCall, ret,
                probeRes>>
escVars == <<data, escOut>>
urlVars == <<u, uIn, restOut>>
verVars == <<vRes, vOut, vSeen>>
vars == <<clientVars, escVars, urlVars, verVars>>

----------------------------------------------------------------------------
(* Bounds of the model. *)

MaxSlashes == 2   \* trailing "/" of a generated endpoint path
MaxData == 3      \* bytes of an EscapeChars argument
MaxQuery == 2     \* fragments of a URL's Query
MaxFrag == 2      \* characters of one query fragment
MaxVer == 5       \* characters of a generated version string

----------------------------------------------------------------------------
(* Strings. *)

RECURSIVE Concat(_)
Concat(ss) == IF ss = <<>> THEN <<>> ELSE Head(ss) \o Concat(Tail(ss))

SeqsUpTo(S, n) == UNION {[1..k -> S] : k \in 0..n}

HasPrefix(s, p) == Len(s) >= Len(p) /\ SubSeq(s, 1, Len(p)) = p

HasSuffix(s, p) == Len(s) >= Len(p) /\ SubSeq(s, Len(s) - Len(p) + 1, Len(s)) = p

\* strings.IndexByte / strings.LastIndexByte, 1-based, 0 when absent
IndexOf(s, c) ==
    IF \E i \in 1..Len(s) : s[i] = c
    THEN CHOOSE i \in 1..Len(s) : s[i] = c /\ \A j \in 1..(i-1) : s[j] # c
    ELSE 0

LastIndexOf(s, c) ==
    IF \E i \in 1..Len(s) : s[i] = c
    THEN CHOOSE i \in 1..Len(s) : s[i] = c /\ \A j \in (i+1)..Len(s) : s[j] # c
    ELSE 0

\* strings.TrimSuffix: s without the suffix, when it ends with it
TrimSuffix(s, suffix) ==
    IF HasSuffix(s, suffix) THEN SubSeq(s, 1, Len(s) - Len(suffix)) ELSE s

----------------------------------------------------------------------------
(* net/url, as NewClient uses it (lines 78-80, 102, 108).  Endpoints carry *)
(* no userinfo, query, fragment, escape or IPv6 literal.                   *)

LetterWords == {"http", "https", "api", "apis", "ftp", "HTTPS", "r", "p"}
DigitWords == {"8080", "8728", "8729"}

NoUrl == [err |-> "", Scheme |-> <<>>, Opaque |-> <<>>, Host |-> <<>>, Path |-> <<>>]

\* strings.ToLower on the scheme
ToLower(s) == [i \in 1..Len(s) |-> IF s[i] = "HTTPS" THEN "https" ELSE s[i]]

\* url.getScheme: the letters before the first ":" are the scheme; a string
\* that starts with ":" is an error; anything else has no scheme.
RECURSIVE getScheme(_, _)
getScheme(rawURL, i) ==
    IF i > Len(rawURL) THEN [err |-> "", scheme |-> <<>>, rest |-> rawURL]
    ELSE IF rawURL[i] \in LetterWords THEN getScheme(rawURL, i + 1)
    ELSE IF rawURL[i] \in DigitWords
         THEN IF i = 1 THEN [err |-> "", scheme |-> <<>>, rest |-> rawURL]
              ELSE getScheme(rawURL, i + 1)
    ELSE IF rawURL[i] = ":"
         THEN IF i = 1
              THEN [err |-> "missing protocol scheme", scheme |-> <<>>, rest |-> <<>>]
              ELSE [err |-> "", scheme |-> SubSeq(rawURL, 1, i - 1),
                    rest |-> SubSeq(rawURL, i + 1, Len(rawURL))]
    ELSE [err |-> "", scheme |-> <<>>, rest |-> rawURL]

\* url.validOptionalPort: "" or ":" followed by digits only
validOptionalPort(port) ==
    \/ port = <<>>
    \/ /\ port[1] = ":"
       /\ \A i \in 2..Len(port) : port[i] \in DigitWords

\* url.parseHost: the text after the last ":" must be a valid port
parseHostErr(host) ==
    LET i == LastIndexOf(host, ":") IN
    IF i # 0 /\ ~validOptionalPort(SubSeq(host, i, Len(host)))
    THEN "invalid port after host" ELSE ""

\* url.Parse
Parse(rawURL) ==
    LET sch == getScheme(rawURL, 1)
        scheme == ToLower(sch.scheme)
        rest == sch.rest
        slash == IndexOf(rest, "/")
        segment == IF slash = 0 THEN rest ELSE SubSeq(rest, 1, slash - 1)
        hasAuth == (scheme # <<>> \/ ~HasPrefix(rest, <<"/", "/", "/">>))
                   /\ HasPrefix(rest, <<"/", "/">>)
        after == SubSeq(rest, 3, Len(rest))
        cut == IndexOf(after, "/")
        authority == IF cut = 0 THEN after ELSE SubSeq(after, 1, cut - 1)
        path == IF cut = 0 THEN <<>> ELSE SubSeq(after, cut, Len(after))
    IN
    IF sch.err # "" THEN [NoUrl EXCEPT !.err = sch.err]
    ELSE IF ~HasPrefix(rest, <<"/">>) /\ scheme # <<>>
         THEN [NoUrl EXCEPT !.Scheme = scheme, !.Opaque = rest]
    ELSE IF ~HasPrefix(rest, <<"/">>) /\ IndexOf(segment, ":") # 0
         THEN [NoUrl EXCEPT !.err = "first path segment in URL cannot contain colon"]
    ELSE IF hasAuth
         THEN IF parseHostErr(authority) # ""
              THEN [NoUrl EXCEPT !.err = parseHostErr(authority)]
              ELSE [NoUrl EXCEPT !.Scheme = scheme, !.Host = authority, !.Path = path]
    ELSE [NoUrl EXCEPT !.Scheme = scheme, !.Path = rest]

\* (*URL).Port: the text after the last ":" of Host, when it is a valid port
Port(url) ==
    LET colon == LastIndexOf(url.Host, ":") IN
    IF colon # 0 /\ validOptionalPort(SubSeq(url.Host, colon, Len(url.Host)))
    THEN SubSeq(url.Host, colon + 1, Len(url.Host))
    ELSE <<>>

\* (*URL).String for the URLs NewClient renders (scheme, host and path set)
String(url) ==
    (IF url.Scheme # <<>> THEN url.Scheme \o <<":">> ELSE <<>>)
    \o (IF url.Opaque # <<>> THEN url.Opaque
        ELSE (IF (url.Scheme # <<>> \/ url.Host # <<>>)
                 /\ (url.Host # <<>> \/ url.Path # <<>>)
              THEN <<"/", "/">> ELSE <<>>)
             \o url.Host \o url.Path)

\* The endpoint strings a configuration may carry.
Slashes(k) == [i \in 1..k |-> "/"]
Prefixes == {<<>>, <<"/", "/">>}
            \cup {<<s, ":", "/", "/">> : s \in {"http", "https", "api", "apis", "ftp", "HTTPS"}}
Authorities == {<<>>, <<"r">>, <<"r", ":">>, <<"r", ":", "8080">>, <<"r", ":", "r">>}
Paths == {base \o Slashes(k) : base \in {<<>>, <<"/", "p">>}, k \in 0..MaxSlashes}
HostUrls == {pre \o a \o p : pre \in Prefixes, a \in Authorities, p \in Paths}

----------------------------------------------------------------------------
(* Diagnostics (terraform-plugin-sdk diag): a nil diag.Diagnostics is <<>>. *)

Errorf(summary) == <<[severity |-> "Error", summary |-> summary, detail |-> ""]>>

\* diag.FromErr: one error diagnostic whose summary is err.Error()
FromErr(err) == Errorf(err)

----------------------------------------------------------------------------
(* GetRouterOSVersion (lines 235-259).  A version string is a sequence of   *)
(* characters; ReadItems returns (res, err), err = "" standing for nil.     *)

IsDigit(c) == c \in {"0", "1", "2", "3", "4", "5", "6", "7", "8", "9"}

\* \d+ from position i, greedy: the position after the longest run of digits
RECURSIVE DigitsEnd(_, _)
DigitsEnd(s, i) ==
    IF i <= Len(s) /\ IsDigit(s[i]) THEN DigitsEnd(s, i + 1) ELSE i

\* (\d+\.) from position i: the position after the group, 0 when it fails
GroupEnd(s, i) ==
    LET j == DigitsEnd(s, i) IN
    IF j > i /\ j <= Len(s) /\ s[j] = "." THEN j + 1 ELSE 0

\* ^(\d+\.){1,2}\d+ : the length of the leftmost-first match, 0 when none.
\* The repetition is greedy: two groups are tried before one.
MatchEnd(s) ==
    LET g1 == GroupEnd(s, 1)
        g2 == IF g1 = 0 THEN 0 ELSE GroupEnd(s, g1)
    IN
    IF g1 = 0 THEN 0
    ELSE IF g2 # 0 /\ DigitsEnd(s, g2) > g2 THEN DigitsEnd(s, g2) - 1
    ELSE IF DigitsEnd(s, g1) > g1 THEN DigitsEnd(s, g1) - 1
    ELSE 0

\* re.MatchString, re.FindString
MatchString(s) == MatchEnd(s) # 0
FindString(s) == SubSeq(s, 1, MatchEnd(s))

GetRouterOSVersion(res) ==
    IF res.err # "" THEN [ros |-> <<>>, diags |-> FromErr(res.err)]
    ELSE IF Len(res.items) = 0
         THEN [ros |-> <<>>, diags |-> Errorf("RouterOS version not found")]
    ELSE IF "version" \notin DOMAIN res.items[1]
         THEN [ros |-> <<>>, diags |-> Errorf("RouterOS version not found")]
    ELSE IF ~MatchString(res.items[1]["version"])
         THEN [ros |-> <<>>, diags |-> Errorf("RouterOS version not found")]
    ELSE [ros |-> FindString(res.items[1]["version"]), diags |-> <<>>]

\* What the read of /system/resource may return.
ReadFailed(err) == [err |-> err, items |-> <<>>]
NoItems == [err |-> "", items |-> <<>>]
ItemWithoutVersion == [err |-> "", items |-> <<[f \in {"uptime"} |-> <<"1", "d">>]>>]
ItemWithVersion(v) ==
    [err |-> "", items |-> <<[f \in {"uptime", "version"} |->
                                 IF f = "version" THEN v ELSE <<"1", "d">>]>>]

V71stable == <<"7", ".", "1", " ", "(", "s", "t", "a", "b", "l", "e", ")">>
V6486foo == <<"6", ".", "4", "8", ".", "6", " ", "f", "o", "o">>
Vabc == <<"a", "b", "c">>

ProbeResults ==
    {ReadFailed("read: i/o timeout"), NoItems, ItemWithoutVersion}
    \cup {ItemWithVersion(v) : v \in {V71stable, V6486foo, Vabc}}

----------------------------------------------------------------------------
(* NewClient (lines 50-192).  One call runs at a time; its steps are the    *)
(* stretches of the body between two operations on the outside world.       *)

Vconfigured == <<"6", ".", "4", "9">>

Configs == [insecure : BOOLEAN,
            ca_certificate : {"", "ca.pem"},
            hosturl : HostUrls,
            routeros_version : {<<>>, Vconfigured}]

NoData == [insecure |-> FALSE, ca_certificate |-> "", hosturl |-> <<>>,
           routeros_version |-> <<>>]
NoSession == [open |-> FALSE, addr |-> <<>>, tls |-> FALSE, async |-> FALSE]
NoClient == [Transport |-> "nil", HostURL |-> <<>>, async |-> FALSE]
NoProbe == [err |-> "none", items |-> <<>>]

Ev(op) == [op |-> op, addr |-> <<>>, tls |-> FALSE, async |-> FALSE]

\* Conflict, were the test of line 57 missing: the CA file is loaded first
ConflictNotFirst(insecure, caCertificate) == FALSE

\* line 57: the two TLS options exclude each other
Conflict(insecure, caCertificate) == insecure /\ caCertificate # ""

\* SchemeCase with the default ports of "api" and "apis" exchanged
SchemeCaseSwapped(scheme) ==
    IF scheme \in {<<"http">>, <<"https">>}
    THEN [known |-> TRUE, transport |-> "REST", useTLS |-> TRUE, port |-> <<>>]
    ELSE IF scheme = <<"apis">>
    THEN [known |-> TRUE, transport |-> "API", useTLS |-> TRUE, port |-> <<":", "8728">>]
    ELSE IF scheme = <<"api">>
    THEN [known |-> TRUE, transport |-> "API", useTLS |-> FALSE, port |-> <<":", "8729">>]
    ELSE [known |-> FALSE, transport |-> "REST", useTLS |-> TRUE, port |-> <<>>]

\* lines 97-115: what the switch on the scheme selects; known = FALSE is the
\* default branch
SchemeCase(scheme) ==
    IF scheme \in {<<"http">>, <<"https">>}
    THEN [known |-> TRUE, transport |-> "REST", useTLS |-> TRUE, port |-> <<>>]
    ELSE IF scheme = <<"apis">>
    THEN [known |-> TRUE, transport |-> "API", useTLS |-> TRUE, port |-> <<":", "8729">>]
    ELSE IF scheme = <<"api">>
    THEN [known |-> TRUE, transport |-> "API", useTLS |-> FALSE, port |-> <<":", "8728">>]
    ELSE [known |-> FALSE, transport |-> "REST", useTLS |-> TRUE, port |-> <<>>]

\* NeedProbe, were the probe run for every client
NeedProbeAlways(version) == TRUE

\* lines 147, 181: the probe runs when no version is known
NeedProbe(version) == version = <<>>

\* lines 78-81: parse, and parse again behind "https://" when the first
\* parse fails or finds no host
ParseHostUrl(hosturl) ==
    LET first == Parse(hosturl) IN
    IF first.err # "" \/ first.Host = <<>>
    THEN Parse(<<"https", ":", "/", "/">> \o hosturl)
    ELSE first

\* lines 50-60
Begin ==
    /\ pc = "idle"
    /\ \E cfg \in Configs :
       \E f \in (IF cfg.ca_certificate = "" THEN {"none"}
                 ELSE {"missing", "unreadable", "ok"}) :
          /\ d' = cfg
          /\ fs' = f
          /\ tlsConf' = [InsecureSkipVerify |-> cfg.insecure, RootCAs |-> "system"]
          /\ IF Conflict(cfg.insecure, cfg.ca_certificate)
             THEN /\ diags' = Errorf("You have selected mutually exclusive options: ca_certificate and insecure connection. Please check the ENV variables and TF files.")
                  /\ pc' = "done"
                  /\ ret' = 58
             ELSE /\ diags' = <<>>
                  /\ pc' = IF cfg.ca_certificate # "" THEN "stat" ELSE "parse"
                  /\ ret' = 0
    /\ routerUrl' = NoUrl
    /\ useTLS' = TRUE
    /\ transport' = "REST"
    /\ session' = NoSession
    /\ client' = NoClient
    /\ log' = <<>>
    /\ verAtCall' = RouterOSVersion
    /\ probeRes' = NoProbe
    /\ UNCHANGED <<RouterOSVersion, escVars, urlVars, verVars>>

\* lines 63-66: os.Stat of the CA path
Stat ==
    /\ pc = "stat"
    /\ log' = Append(log, Ev("stat"))
    /\ IF fs = "missing"
       THEN /\ diags' = FromErr("stat ca.pem: no such file or directory")
            /\ pc' = "done"
            /\ ret' = 65
       ELSE UNCHANGED <<diags, ret>> /\ pc' = "read"
    /\ UNCHANGED <<RouterOSVersion, d, fs, tlsConf, routerUrl, useTLS, transport,
                   session, client, verAtCall, probeRes, escVars, urlVars, verVars>>

\* lines 68-75: os.ReadFile of the CA path and the certificate pool
ReadFile ==
    /\ pc = "read"
    /\ log' = Append(log, Ev("read"))
    /\ IF fs = "unreadable"
       THEN /\ diags' = Errorf("Failed to read CA file 'ca.pem', permission denied")
            /\ pc' = "done"
            /\ ret' = 72
            /\ tlsConf' = tlsConf
       ELSE /\ UNCHANGED <<diags, ret>>
            /\ pc' = "parse"
            /\ tlsConf' = [tlsConf EXCEPT !.RootCAs = "pool"]
    /\ UNCHANGED <<RouterOSVersion, d, fs, routerUrl, useTLS, transport,
                   session, client, verAtCall, probeRes, escVars, urlVars, verVars>>

\* lines 78-91
ParseUrl ==
    /\ pc = "parse"
    /\ LET parsed == ParseHostUrl(d.hosturl) IN
       IF parsed.err # ""
       THEN /\ diags' = <<[severity |-> "Error", summary |-> parsed.err,
                           detail |-> "Error while parsing the router URL"]>>
            /\ pc' = "done"
            /\ ret' = 83
            /\ routerUrl' = routerUrl
       ELSE /\ UNCHANGED <<diags, ret>>
            /\ pc' = "scheme"
            /\ routerUrl' = [parsed EXCEPT !.Path = TrimSuffix(@, <<"/">>)]
    /\ UNCHANGED <<RouterOSVersion, d, fs, tlsConf, useTLS, transport, session,
                   client, log, verAtCall, probeRes, escVars, urlVars, verVars>>

\* lines 93-115: the default branch panics, which ends the process
SwitchScheme ==
    /\ pc = "scheme"
    /\ LET c == SchemeCase(routerUrl.Scheme) IN
       IF ~c.known
       THEN /\ pc' = "panic"
            /\ UNCHANGED <<routerUrl, useTLS, transport>>
       ELSE /\ pc' = "version"
            /\ useTLS' = c.useTLS
            /\ transport' = c.transport
            /\ routerUrl' =
                 IF c.transport = "API"
                 THEN [routerUrl EXCEPT
                         !.Scheme = <<>>,
                         !.Host = IF Port(routerUrl) = <<>> THEN @ \o c.port ELSE @]
                 ELSE routerUrl
    /\ UNCHANGED <<RouterOSVersion, d, fs, tlsConf, session, client, diags, log,
                   verAtCall, ret, probeRes, escVars, urlVars, verVars>>

\* lines 117-120
SetVersion ==
    /\ pc = "version"
    /\ RouterOSVersion' = d.routeros_version
    /\ pc' = IF transport = "API" THEN "dial" ELSE "http"
    /\ UNCHANGED <<d, fs, tlsConf, routerUrl, useTLS, transport, session, client,
                   diags, log, verAtCall, ret, probeRes, escVars, urlVars, verVars>>

\* lines 122-141: routeros.Dial or routeros.DialTLS at api.HostURL
Dial ==
    /\ pc = "dial"
    /\ log' = Append(log, [Ev("dial") EXCEPT !.addr = routerUrl.Host, !.tls = useTLS])
    /\ \E ok \in BOOLEAN :
         IF ok
         THEN /\ session' = [open |-> TRUE, addr |-> routerUrl.Host,
                             tls |-> useTLS, async |-> FALSE]
              /\ pc' = "async"
              /\ UNCHANGED <<diags, ret>>
         ELSE /\ session' = session
              /\ pc' = "done"
              /\ ret' = 140
              /\ diags' = FromErr("dial tcp: connection refused")
    /\ UNCHANGED <<RouterOSVersion, d, fs, tlsConf, routerUrl, useTLS, transport,
                   client, verAtCall, probeRes, escVars, urlVars, verVars>>

\* line 145, and the test of line 147
Async ==
    /\ pc = "async"
    /\ session' = [session EXCEPT !.async = TRUE]
    /\ log' = Append(log, Ev("async"))
    /\ pc' = IF NeedProbe(RouterOSVersion) THEN "probe" ELSE "return"
    /\ UNCHANGED <<RouterOSVersion, d, fs, tlsConf, routerUrl, useTLS, transport,
                   client, diags, verAtCall, ret, probeRes, escVars, urlVars,
                   verVars>>

\* lines 160-179, and the test of line 181
BuildRest ==
    /\ pc = "http"
    /\ log' = Append(log, Ev("http"))
    /\ pc' = IF NeedProbe(RouterOSVersion) THEN "probe" ELSE "return"
    /\ UNCHANGED <<RouterOSVersion, d, fs, tlsConf, routerUrl, useTLS, transport,
                   session, client, diags, verAtCall, ret, probeRes, escVars,
                   urlVars, verVars>>

\* lines 148-154 and 182-188: the bootstrap read and what is made of it
Probe ==
    /\ pc = "probe"
    /\ \E res \in ProbeResults :
         LET r == GetRouterOSVersion(res) IN
         /\ probeRes' = res
         /\ IF r.diags # <<>>
            THEN /\ diags' = r.diags
                 /\ pc' = "done"
                 /\ ret' = IF transport = "API" THEN 150 ELSE 184
                 /\ RouterOSVersion' = RouterOSVersion
            ELSE /\ UNCHANGED <<diags, ret>>
                 /\ pc' = "return"
                 /\ RouterOSVersion' = r.ros
    /\ log' = Append(log, [Ev("probe") EXCEPT !.async = session.async])
    /\ UNCHANGED <<d, fs, tlsConf, routerUrl, useTLS, transport, session, client,
                   verAtCall, escVars, urlVars, verVars>>

\* lines 157 and 191
Return ==
    /\ pc = "return"
    /\ client' = [Transport |-> transport,
                  HostURL |-> IF transport = "API" THEN routerUrl.Host
                              ELSE String(routerUrl),
                  async |-> session.async]
    /\ pc' = "done"
    /\ ret' = IF transport = "API" THEN 157 ELSE 191
    /\ UNCHANGED <<RouterOSVersion, d, fs, tlsConf, routerUrl, useTLS, transport,
                   session, diags, log, verAtCall, probeRes, escVars, urlVars,
                   verVars>>

\* Between two calls: the caller has taken the values returned, and nothing
\* of the call is left but the package-level RouterOSVersion.
Release ==
    /\ pc = "done"
    /\ pc' = "idle"
    /\ d' = NoData
    /\ fs' = "none"
    /\ tlsConf' = [InsecureSkipVerify |-> FALSE, RootCAs |-> "system"]
    /\ routerUrl' = NoUrl
    /\ useTLS' = TRUE
    /\ transport' = "REST"
    /\ session' = NoSession
    /\ client' = NoClient
    /\ diags' = <<>>
    /\ log' = <<>>
    /\ verAtCall' = RouterOSVersion
    /\ ret' = 0
    /\ probeRes' = NoProbe
    /\ UNCHANGED <<RouterOSVersion, escVars, urlVars, verVars>>

\* RouterOSVersion is a package-level string declared outside this file: it
\* starts as the empty string.
InitClient ==
    /\ RouterOSVersion = <<>>
    /\ pc = "idle"
    /\ d = NoData
    /\ fs = "none"
    /\ tlsConf = [InsecureSkipVerify |-> FALSE, RootCAs |-> "system"]
    /\ routerUrl = NoUrl
    /\ useTLS = TRUE
    /\ transport = "REST"
    /\ session = NoSession
    /\ client = NoClient
    /\ diags = <<>>
    /\ log = <<>>
    /\ verAtCall = <<>>
    /\ ret = 0
    /\ probeRes = NoProbe

InitEscIdle == data = <<>> /\ escOut = [done |-> FALSE, val |-> <<>>]
InitUrlIdle ==
    /\ u = [Path |-> <<>>, Query |-> <<>>]
    /\ uIn = u
    /\ restOut = [done |-> FALSE, val |-> <<>>]
InitVerIdle ==
    /\ vRes = NoProbe
    /\ vOut = [done |-> FALSE, ros |-> <<>>, diags |-> <<>>]
    /\ vSeen = {}

Init == InitClient /\ InitEscIdle /\ InitUrlIdle /\ InitVerIdle

Next ==
    \/ Begin
    \/ Stat
    \/ ReadFile
    \/ ParseUrl
    \/ SwitchScheme
    \/ SetVersion
    \/ Dial
    \/ Async
    \/ BuildRest
    \/ Probe
    \/ Return
    \/ Release

Spec == Init /\ [][Next]_vars

----------------------------------------------------------------------------
(* EscapeChars (lines 217-232). *)

\* encoding/hex: the digits "0123456789abcdef"
hextable == <<48, 49, 50, 51, 52, 53, 54, 55, 56, 57, 97, 98, 99, 100, 101, 102>>

\* hexEncode with the digits "0123456789ABCDEF"
hexEncodeUpper(b) ==
    LET upper == <<48, 49, 50, 51, 52, 53, 54, 55, 56, 57, 65, 66, 67, 68, 69, 70>>
    IN <<upper[(b \div 16) + 1], upper[(b % 16) + 1]>>

\* hex.Encode of one byte: high nibble, low nibble
hexEncode(b) == <<hextable[(b \div 16) + 1], hextable[(b % 16) + 1]>>

\* the loop of lines 223-230, from index i with res built so far; u is the
\* six bytes of `\u0000`, whose last two are overwritten by hex.Encode
RECURSIVE EscapeLoop(_, _, _)
EscapeLoop(bytes, i, res) ==
    IF i > Len(bytes) THEN res
    ELSE IF bytes[i] < 32
         THEN LET appended == res \o <<92, 117, 48, 48, 48, 48>> IN
              EscapeLoop(bytes, i + 1,
                         SubSeq(appended, 1, Len(appended) - 2) \o hexEncode(bytes[i]))
         ELSE EscapeLoop(bytes, i + 1, Append(res, bytes[i]))

EscapeChars(bytes) == EscapeLoop(bytes, 1, <<>>)

ByteSamples == {0, 10, 31, 32, 92, 255}
EscapeInputs == SeqsUpTo(ByteSamples, MaxData) \cup {<<b>> : b \in 0..255}

EscapeCall ==
    /\ ~escOut.done
    /\ escOut' = [done |-> TRUE, val |-> EscapeChars(data)]
    /\ UNCHANGED <<data, clientVars, urlVars, verVars>>

InitEscape ==
    /\ data \in EscapeInputs
    /\ escOut = [done |-> FALSE, val |-> <<>>]
    /\ InitClient /\ InitUrlIdle /\ InitVerIdle

NextEscape == EscapeCall

SpecEscape == InitEscape /\ [][NextEscape]_vars

----------------------------------------------------------------------------
(* URL.GetRestURL (lines 194-197, 208-215).  Path and query fragments are   *)
(* sequences of characters.                                                 *)

\* strings.Join
RECURSIVE Join(_, _)
Join(elems, sep) ==
    IF Len(elems) = 0 THEN <<>>
    ELSE IF Len(elems) = 1 THEN elems[1]
    ELSE elems[1] \o sep \o Join(Tail(elems), sep)

\* GetRestURL, were the "?" inserted whatever the query begins with
GetRestURLAlwaysMark(url) ==
    LET joined == Join(url.Query, <<"&">>)
        q == IF Len(joined) > 0 THEN <<"?">> \o joined ELSE joined
    IN [val |-> url.Path \o q, u |-> url]

\* the value returned, and the receiver as the method leaves it
GetRestURL(url) ==
    LET joined == Join(url.Query, <<"&">>)
        q == IF Len(joined) > 0 /\ joined[1] # "?" THEN <<"?">> \o joined ELSE joined
    IN [val |-> url.Path \o q, u |-> url]

Fragments == SeqsUpTo({"?", "a"}, MaxFrag)
Urls == [Path : {<<>>, <<"/", "a">>}, Query : SeqsUpTo(Fragments, MaxQuery)]

RestCall ==
    /\ ~restOut.done
    /\ restOut' = [done |-> TRUE, val |-> GetRestURL(u).val]
    /\ u' = GetRestURL(u).u
    /\ UNCHANGED <<uIn, clientVars, escVars, verVars>>

InitRest ==
    /\ u \in Urls
    /\ uIn = u
    /\ restOut = [done |-> FALSE, val |-> <<>>]
    /\ InitClient /\ InitEscIdle /\ InitVerIdle

NextRest == RestCall

SpecRest == InitRest /\ [][NextRest]_vars

----------------------------------------------------------------------------
(* GetRouterOSVersion on its own, over every short answer of the read. *)

VersionInputs ==
    {ReadFailed("read: i/o timeout"), NoItems, ItemWithoutVersion}
    \cup {ItemWithVersion(v) :
            v \in SeqsUpTo({"7", ".", "a"}, MaxVer) \cup {V71stable, V6486foo, Vabc}}

\* which of the outcomes of lines 237-258 an answer of the read leads to
FailureKind(res) ==
    IF res.err # "" THEN "transport"
    ELSE IF Len(res.items) = 0 THEN "empty"
    ELSE IF "version" \notin DOMAIN res.items[1] THEN "nofield"
    ELSE "format"

VersionCall ==
    /\ ~vOut.done
    /\ LET r == GetRouterOSVersion(vRes) IN
       /\ vOut' = [done |-> TRUE, ros |-> r.ros, diags |-> r.diags]
       /\ vSeen' = IF r.diags # <<>>
                   THEN vSeen \cup {[kind |-> FailureKind(vRes), diags |-> r.diags]}
                   ELSE vSeen
    /\ UNCHANGED <<vRes, clientVars, escVars, urlVars>>

VersionAgain ==
    /\ vOut.done
    /\ vRes' \in VersionInputs
    /\ vOut' = [done |-> FALSE, ros |-> <<>>, diags |-> <<>>]
    /\ UNCHANGED <<vSeen, clientVars, escVars, urlVars>>

InitVersion ==
    /\ vRes \in VersionInputs
    /\ vOut = [done |-> FALSE, ros |-> <<>>, diags |-> <<>>]
    /\ vSeen = {}
    /\ InitClient /\ InitEscIdle /\ InitUrlIdle

NextVersion == VersionCall \/ VersionAgain

SpecVersion == InitVersion /\ [][NextVersion]_vars

----------------------------------------------------------------------------
(* Properties of NewClient, checked under Spec. *)

Ops(ops) == {i \in 1..Len(log) : log[i].op \in ops}

\* the call in progress has left the statement it names behind
PastParse == pc \in {"scheme", "version", "dial", "http", "async", "probe",
                     "return", "panic"} \/ (pc = "done" /\ ret > 83)
PastSwitch == pc \in {"version", "dial", "http", "async", "probe", "return"}
              \/ (pc = "done" /\ ret > 83)
Returned == pc = "done"

\* C1: a call with insecure = true and a non-empty ca_certificate fails with
\* the mutually-exclusive-options error, returns no client, and has neither
\* stat'ed nor read the CA path, whatever the file system holds there.
C1_ConflictBeforeFileIO ==
    (pc # "idle" /\ d.insecure /\ d.ca_certificate # "") =>
        /\ Returned
        /\ ret = 58
        /\ Len(diags) = 1
        /\ diags[1].severity = "Error"
        /\ diags[1].summary = "You have selected mutually exclusive options: ca_certificate and insecure connection. Please check the ENV variables and TF files."
        /\ client = NoClient
        /\ Ops({"stat", "read"}) = {}

\* C1's case: both options set, and the CA path names no file
C1_Witness ==
    /\ Returned
    /\ d.insecure
    /\ d.ca_certificate # ""
    /\ fs = "missing"

\* C2: once RouterOSVersion is non-empty, a later call without a configured
\* routeros_version never changes it and issues no probe.
C2_VersionKeptWithoutOverride ==
    (pc # "idle" /\ verAtCall # <<>> /\ d.routeros_version = <<>>) =>
        /\ RouterOSVersion = verAtCall
        /\ Ops({"probe"}) = {}

\* the leading X.Y or X.Y.Z of the two well-formed answers of the read
TokenOf(v) ==
    IF v = V71stable THEN <<"7", ".", "1">>
    ELSE IF v = V6486foo THEN <<"6", ".", "4", "8", ".", "6">>
    ELSE <<>>

\* C3: a call that has built its transport (the session is open, or the HTTP
\* client is made) issues no bootstrap read when routeros_version is
\* configured, and returns with RouterOSVersion equal to the configured
\* value; with none configured it issues exactly one, after the transport
\* exists and before it returns, and returns a client only with
\* RouterOSVersion equal to the token extracted from the answer.
C3_ProbeOnlyWithoutOverride ==
    LET built == session.open \/ Ops({"http"}) # {}
        probes == Ops({"probe"})
    IN
    /\ (pc # "idle" /\ d.routeros_version # <<>>) =>
          /\ probes = {}
          /\ client # NoClient => RouterOSVersion = d.routeros_version
    /\ (pc # "idle" /\ d.routeros_version = <<>>) =>
          /\ Cardinality(probes) <= 1
          /\ \A i \in probes : \E j \in Ops({"dial", "http"}) : j < i /\ built
          /\ (built /\ pc \in {"return", "done"}) => Cardinality(probes) = 1
          /\ client # NoClient =>
                /\ Cardinality(probes) = 1
                /\ probeRes.err = ""
                /\ Len(probeRes.items) > 0
                /\ RouterOSVersion # <<>>
                /\ RouterOSVersion = TokenOf(probeRes.items[1]["version"])
    /\ client # NoClient => built

\* C3's case: a client returned after one probe over the binary transport
C3_Witness ==
    /\ client # NoClient
    /\ d.routeros_version = <<>>
    /\ transport = "API"
    /\ Ops({"probe"}) # {}
    /\ RouterOSVersion = <<"6", ".", "4", "8", ".", "6">>

\* the text after the last ":" of a host (empty when there is none)
PortText(host) ==
    LET i == LastIndexOf(host, ":") IN
    IF i = 0 THEN <<>> ELSE SubSeq(host, i + 1, Len(host))

\* C4: the scheme of the parsed endpoint decides the transport: http and
\* https give REST; api gives the binary transport dialed without TLS at
\* port 8728 unless the endpoint names a port; apis gives it dialed with TLS
\* at port 8729 unless the endpoint names a port; any other scheme panics
\* with no client, no connection and RouterOSVersion untouched.  A returned
\* client carries the transport so decided.
C4_SchemeMapping ==
    LET parsed == ParseHostUrl(d.hosturl)
        scheme == parsed.Scheme
        dials == Ops({"dial"})
        want == IF PortText(parsed.Host) # <<>> THEN PortText(parsed.Host)
                ELSE IF scheme = <<"api">> THEN <<"8728">> ELSE <<"8729">>
    IN
    /\ pc = "panic" =>
          /\ scheme \notin {<<"http">>, <<"https">>, <<"api">>, <<"apis">>}
          /\ client = NoClient
          /\ Ops({"dial", "http", "probe"}) = {}
          /\ ~session.open
          /\ RouterOSVersion = verAtCall
    /\ PastSwitch =>
          /\ scheme \in {<<"http">>, <<"https">>, <<"api">>, <<"apis">>}
          /\ scheme \in {<<"http">>, <<"https">>} =>
                transport = "REST" /\ dials = {} /\ ~session.open
          /\ scheme \in {<<"api">>, <<"apis">>} =>
                /\ transport = "API"
                /\ Ops({"http"}) = {}
                /\ \A i \in dials :
                      /\ log[i].tls = (scheme = <<"apis">>)
                      /\ PortText(log[i].addr) = want
                /\ session.open =>
                      session.tls = (scheme = <<"apis">>) /\ PortText(session.addr) = want
          /\ client # NoClient =>
                client.Transport = IF scheme \in {<<"api">>, <<"apis">>}
                                   THEN "API" ELSE "REST"

\* C4's case: a binary client over TLS at the default port
C4_Witness ==
    /\ client # NoClient
    /\ client.Transport = "API"
    /\ session.tls
    /\ PortText(ParseHostUrl(d.hosturl).Host) = <<>>
    /\ PortText(client.HostURL) = <<"8729">>

\* C5: when the first parse fails or finds no host, the call goes on to the
\* scheme selection exactly when the endpoint behind "https://" parses to a
\* non-empty host, and returns the URL-parse diagnostic otherwise.
C5_RetryNeedsHost ==
    LET first == Parse(d.hosturl)
        second == Parse(<<"https", ":", "/", "/">> \o d.hosturl)
    IN
    ((PastParse \/ (Returned /\ ret = 83)) /\ (first.err # "" \/ first.Host = <<>>)) =>
        (PastParse <=> (second.err = "" /\ second.Host # <<>>))

\* s without any of its trailing "/"
RECURSIVE StripSlashes(_)
StripSlashes(s) ==
    IF s # <<>> /\ s[Len(s)] = "/" THEN StripSlashes(SubSeq(s, 1, Len(s) - 1)) ELSE s

\* C8: the normalized path is the parsed path without its trailing "/", all
\* of them: it never ends in "/", and normalizing it again changes nothing.
C8_NoTrailingSlash ==
    (PastParse /\ pc # "panic") =>
        /\ routerUrl.Path = StripSlashes(ParseHostUrl(d.hosturl).Path)
        /\ ~HasSuffix(routerUrl.Path, <<"/">>)
        /\ TrimSuffix(routerUrl.Path, <<"/">>) = routerUrl.Path

\* The session is in asynchronous mode when the bootstrap read is sent on it.
AsyncBeforeProbe ==
    \A i \in Ops({"probe"}) : transport = "API" => log[i].async

----------------------------------------------------------------------------
(* Properties of GetRestURL, checked under SpecRest. *)

\* the fragments in their order, each but the first behind one "&"
Flat(query) ==
    Concat([i \in 1..Len(query) |-> IF i = 1 THEN query[i] ELSE <<"&">> \o query[i]])

\* C9: GetRestURL returns the path followed by the "&"-joined fragments in
\* their order, with one "?" between the two when the joined query is not
\* empty and does not begin with "?", none when it does, and the bare path
\* when it is empty; the URL is left as it was.
C9_RestURL ==
    restOut.done =>
        LET q == Flat(uIn.Query) IN
        /\ u = uIn
        /\ q = <<>> => restOut.val = uIn.Path
        /\ (q # <<>> /\ q[1] = "?") => restOut.val = uIn.Path \o q
        /\ (q # <<>> /\ q[1] # "?") => restOut.val = uIn.Path \o <<"?">> \o q

\* C9's case: two fragments, the first beginning with "?"
C9_Witness ==
    /\ restOut.done
    /\ uIn.Path = <<"/", "a">>
    /\ uIn.Query = << <<"?", "a">>, <<"a">> >>
    /\ restOut.val = <<"/", "a", "?", "a", "&", "a">>

----------------------------------------------------------------------------
(* Properties of EscapeChars, checked under SpecEscape. *)

\* the lowercase hexadecimal digit of n, as a byte
HexDigit(n) == IF n < 10 THEN 48 + n ELSE 87 + n

\* C10: EscapeChars replaces each byte below 0x20 by \u00XX, XX its value in
\* two lowercase hexadecimal digits, and copies every other byte in order:
\* the result holds no byte below 0x20, is 5 bytes longer per byte replaced,
\* and is the argument when nothing is replaced.
C10_EscapeChars ==
    escOut.done =>
        LET ctl == {i \in 1..Len(data) : data[i] < 32}
            at(i) == i + 5 * Cardinality({j \in ctl : j < i})
            out == escOut.val
        IN
        /\ Len(out) = Len(data) + 5 * Cardinality(ctl)
        /\ \A i \in 1..Len(data) :
              IF data[i] < 32
              THEN SubSeq(out, at(i), at(i) + 5) =
                     <<92, 117, 48, 48, HexDigit(data[i] \div 16), HexDigit(data[i] % 16)>>
              ELSE out[at(i)] = data[i]
        /\ \A k \in 1..Len(out) : out[k] >= 32
        /\ ctl = {} => out = data

\* C10's case: a line feed and a unit separator around a backslash
C10_Witness ==
    /\ escOut.done
    /\ data = <<10, 92, 31>>
    /\ escOut.val = <<92, 117, 48, 48, 48, 97, 92, 92, 117, 48, 48, 49, 102>>

----------------------------------------------------------------------------
(* Properties of GetRouterOSVersion, checked under SpecVersion. *)

IsPrefix(p, s) == Len(p) <= Len(s) /\ SubSeq(s, 1, Len(p)) = p

\* p is k+1 non-empty groups of digits separated by "."
Groups(p, k) ==
    /\ p # <<>>
    /\ \A i \in 1..Len(p) : IsDigit(p[i]) \/ p[i] = "."
    /\ Cardinality({i \in 1..Len(p) : p[i] = "."}) = k
    /\ p[1] # "." /\ p[Len(p)] # "."
    /\ \A i \in 1..(Len(p) - 1) : ~(p[i] = "." /\ p[i + 1] = ".")

\* the prefixes of s of the shape X.Y.Z, or of the shape X.Y when none is
Tokens(s) ==
    LET three == {n \in 1..Len(s) : Groups(SubSeq(s, 1, n), 2)}
        two == {n \in 1..Len(s) : Groups(SubSeq(s, 1, n), 1)}
    IN IF three # {} THEN three ELSE two

\* The outcome of the probe for each answer of the read: the error of a
\* failed read is passed on, and a version is extracted exactly from the
\* strings that begin with X.Y or X.Y.Z, as their longest such prefix.
VersionOutcome ==
    vOut.done =>
        /\ vRes.err # "" => vOut.diags = FromErr(vRes.err) /\ vOut.ros = <<>>
        /\ (vRes.err = "" /\ (Len(vRes.items) = 0 \/ "version" \notin DOMAIN vRes.items[1])) =>
              vOut.diags # <<>> /\ vOut.ros = <<>>
        /\ (vRes.err = "" /\ Len(vRes.items) > 0 /\ "version" \in DOMAIN vRes.items[1]) =>
              LET v == vRes.items[1]["version"] IN
              IF Tokens(v) = {}
              THEN vOut.diags # <<>> /\ vOut.ros = <<>>
              ELSE /\ vOut.diags = <<>>
                   /\ IsPrefix(vOut.ros, v)
                   /\ Len(vOut.ros) \in Tokens(v)
                   /\ \A n \in Tokens(v) : n <= Len(vOut.ros)
        /\ vRes = ItemWithVersion(V71stable) => vOut.ros = <<"7", ".", "1">>
        /\ vRes = ItemWithVersion(V6486foo) => vOut.ros = <<"6", ".", "4", "8", ".", "6">>

\* C7: the outcome follows the answer of the read as above, and the four
\* failures (failed read, no item, no version field, malformed version) are
\* told apart by their diagnostics: two failures of different kinds never
\* yield the same diagnostics.
C7_DistinctDiagnostics ==
    /\ VersionOutcome
    /\ \A a, b \in vSeen : a.kind # b.kind => a.diags # b.diags

====
